---- MODULE Spec2Model ----
(***************************************************************************)
(* The recursive-descent parser of src/src/lang/parser.rs as a state       *)
(* machine.  Every routine of the parser runs in a frame of an explicit    *)
(* call stack, and there is one action per stretch of its code between two *)
(* calls: the action named as the routine runs it from its entry to its    *)
(* first call or return, and the actions named routine_place run it from   *)
(* the return of a callee, or from the place before, to the next call or   *)
(* return.  The cursor primitives change nothing but the cursor and are    *)
(* operators of it.                                                        *)
(***************************************************************************)
EXTENDS Integers, Sequences, FiniteSets, TLC

\* ------------------------------------------------------------ bounds

\* Longest token vector of the exhaustive input family.
MaxLen == 3
\* Longest assignment chain x1 = ... = xn = e of the chain family.
MaxChain == 3
\* Most argument lists after a primary in the call family.
MaxCalls == 2
\* Elements of a Vec<Statement> the model records; further pushes happen
\* (the loop goes on) but leave the recorded prefix as it is.
MaxStmts == 3

\* ------------------------------------------------------------ tokens

\* Object: the literal value a token carries (defined in token.rs;
\* the parser only moves it from previous().literal into Expression::Literal).
Object(obj, val) == [obj |-> obj, val |-> val]

Nil == Object("Nil", "nil")

\* literal of a token as the lexer attaches it: only NUMBER and STRING carry one.
LiteralOf(tag, lexeme) ==
    IF tag = "NUMBER" THEN Object("Number", lexeme)
    ELSE IF tag = "STRING" THEN Object("Str", lexeme)
    ELSE Nil

Token(tag, lexeme, line) ==
    [tag |-> tag, lexeme |-> lexeme, literal |-> LiteralOf(tag, lexeme), line |-> line]

\* The None of Vec::get, which unwrap() turns into a panic.
NoToken == [tag |-> "NONE", lexeme |-> "", literal |-> Nil, line |-> 0]

\* panic message of Option::unwrap on None (peek, previous); the messages are
\* written without their quote characters
UnwrapNone == "called Option::unwrap() on a None value"

\* ------------------------------------------------------------ AST

ExprLiteral(value) == [expr |-> "Literal", value |-> value]

ExprGrouping(e) == [expr |-> "Grouping", expression |-> e]

ExprUnary(op, right) == [expr |-> "Unary", op |-> op, right |-> right]

ExprBinary(left, op, right) == [expr |-> "Binary", left |-> left, op |-> op, right |-> right]

ExprVar(name) == [expr |-> "Var", name |-> name]

ExprAssignment(name, value) == [expr |-> "Assignment", name |-> name, value |-> value]

ExprCall(callee, paren, arguments) ==
    [expr |-> "Call", callee |-> callee, paren |-> paren, arguments |-> arguments]

ExprMark == [expr |-> "Mark"]

StmtExpression(e) == [stmt |-> "Expression", expression |-> e]

StmtPrint(e) == [stmt |-> "Print", expression |-> e]

StmtVar(name, init) == [stmt |-> "Var", name |-> name, init |-> init]

StmtBlock(stmts) == [stmt |-> "Block", statements |-> stmts]

None == [opt |-> "None"]

Some(v) == [opt |-> "Some", val |-> v]

StmtIf(condition, then_block, else_block) ==
    [stmt |-> "If", condition |-> condition, then_block |-> then_block,
     else_block |-> else_block]

StmtFunction(name, parameters, body) ==
    [stmt |-> "Function", name |-> name, parameters |-> parameters, body |-> body]

\* ------------------------------------------------------------ state

VARIABLES
    tokens,      \* Parser.tokens
    current,     \* Parser.current
    stack,       \* the frames of the routines below parse
    ret,         \* the value a routine has just returned to the frame on top
    statements,  \* the local statements of parse
    pc,          \* "running", "returned" (parse returned statements), "panicked"
    failure,     \* the panic message, "" while there is none
    returned     \* the routine that returned in the last step: fn, from, to, mark

vars == <<tokens, current, stack, ret, statements, pc, failure, returned>>

\* ------------------------------------------------------------ cursor

is_at_end(cur) == cur = Len(tokens)

peek(cur) == IF cur < Len(tokens) THEN tokens[cur + 1] ELSE NoToken

\* current - 1 underflows at 0: a panic in a debug build, a wrap to usize::MAX
\* and then None.unwrap() in a release build; a panic in both.
previous(cur) == IF cur >= 1 /\ cur - 1 < Len(tokens) THEN tokens[cur] ELSE NoToken

\* check without the test of is_at_end
check_unguarded(cur, tag) ==
    LET t == peek(cur)
    IN  IF t = NoToken THEN [st |-> UnwrapNone, val |-> FALSE]
        ELSE [st |-> "ok", val |-> t.tag = tag]

check(cur, tag) ==
    IF is_at_end(cur) THEN [st |-> "ok", val |-> FALSE]
    ELSE LET t == peek(cur)
         IN  IF t = NoToken THEN [st |-> UnwrapNone, val |-> FALSE]
             ELSE [st |-> "ok", val |-> t.tag = tag]

advance(cur) ==
    LET c == IF ~is_at_end(cur) THEN cur + 1 ELSE cur
        t == previous(c)
    IN  IF t = NoToken THEN [st |-> UnwrapNone, tok |-> NoToken, cur |-> c]
        ELSE [st |-> "ok", tok |-> t, cur |-> c]

\* expect without the advance
expect_peek(cur, tags) ==
    IF \E t \in tags : check(cur, t).st # "ok"
    THEN [st |-> UnwrapNone, hit |-> FALSE, cur |-> cur]
    ELSE [st |-> "ok", hit |-> \E t \in tags : check(cur, t).val, cur |-> cur]

\* tokens.iter().any(..check..): every check looks at the same token.
expect(cur, tags) ==
    IF \E t \in tags : check(cur, t).st # "ok"
    THEN [st |-> UnwrapNone, hit |-> FALSE, cur |-> cur]
    ELSE IF \E t \in tags : check(cur, t).val
    THEN LET a == advance(cur) IN [st |-> a.st, hit |-> TRUE, cur |-> a.cur]
    ELSE [st |-> "ok", hit |-> FALSE, cur |-> cur]

consume(cur, tag, message) ==
    LET c == check(cur, tag)
    IN  IF c.st # "ok" THEN [st |-> c.st, tok |-> NoToken, cur |-> cur]
        ELSE IF c.val THEN advance(cur)
        ELSE [st |-> message, tok |-> NoToken, cur |-> cur]

\* ------------------------------------------------------------ results

\* the routine fn, entered with the cursor at from, returned with it at to;
\* mark: what it returned is Expression::Mark, or Statement::Expression of it
Entry(fn, from, to, mark) == [fn |-> fn, from |-> from, to |-> to, mark |-> mark]

IsMark(e) == e.expr = "Mark"

IsMarkStmt(s) == s.stmt = "Expression" /\ s.expression.expr = "Mark"

\* ------------------------------------------------------------ call stack

NoRet == [some |-> FALSE]

Ret(v) == [some |-> TRUE, val |-> v]

Frame(fn, from, at, locals) == [fn |-> fn, from |-> from, at |-> at, locals |-> locals]

Top == stack[Len(stack)]

Pop == SubSeq(stack, 1, Len(stack) - 1)

\* Vec::push, recorded up to MaxStmts elements
Push(v, x) == IF Len(v) < MaxStmts THEN Append(v, x) ELSE v

\* the routine fn is on top of the stack, at the place at of its code
Running(fn, at) ==
    /\ pc = "running"
    /\ stack # <<>>
    /\ Top.fn = fn
    /\ Top.at = at

\* the routine fn on top, waiting at at, has got the value of its callee
Returned(fn, at) == Running(fn, at) /\ ret # NoRet

\* a panic unwinds every frame; parse returns nothing
Unwind(message, cur) ==
    /\ pc' = "panicked"
    /\ failure' = message
    /\ stack' = <<>>
    /\ statements' = <<>>
    /\ ret' = NoRet
    /\ current' = cur
    /\ returned' = {}
    /\ UNCHANGED tokens

\* the frame on top moves to at with locals and calls fn, with the cursor at
\* cur and fnLocals as arguments
CallFrom(at, locals, fn, cur, fnLocals) ==
    /\ stack' = Append(Append(Pop, Frame(Top.fn, Top.from, at, locals)),
                       Frame(fn, cur, "start", fnLocals))
    /\ current' = cur
    /\ ret' = NoRet
    /\ returned' = {}
    /\ UNCHANGED <<tokens, statements, pc, failure>>

\* the frame on top goes on at the place at of its code, with locals and the
\* cursor at cur
Goto(at, locals, cur) ==
    /\ stack' = Append(Pop, Frame(Top.fn, Top.from, at, locals))
    /\ current' = cur
    /\ ret' = NoRet
    /\ returned' = {}
    /\ UNCHANGED <<tokens, statements, pc, failure>>

\* the frame on top returns val with the cursor at cur
Return(val, mark, cur) ==
    /\ stack' = Pop
    /\ ret' = Ret(val)
    /\ current' = cur
    /\ returned' = {Entry(Top.fn, Top.from, cur, mark)}
    /\ UNCHANGED <<tokens, statements, pc, failure>>

\* ------------------------------------------------------------ statements

\* parse: the loop test, and the call of declaration
parse ==
    /\ pc = "running"
    /\ stack = <<>>
    /\ ret = NoRet
    /\ ~is_at_end(current)
    /\ stack' = <<Frame("declaration", current, "start", <<>>)>>
    /\ returned' = {}
    /\ UNCHANGED <<tokens, current, ret, statements, pc, failure>>

\* parse: statements.push(..) of what declaration returned
parse_push ==
    /\ pc = "running"
    /\ stack = <<>>
    /\ ret # NoRet
    /\ statements' = Push(statements, ret.val)
    /\ ret' = NoRet
    /\ returned' = {}
    /\ UNCHANGED <<tokens, current, stack, pc, failure>>

\* parse: the loop ends and statements is returned
parse_return ==
    /\ pc = "running"
    /\ stack = <<>>
    /\ ret = NoRet
    /\ is_at_end(current)
    /\ pc' = "returned"
    /\ returned' = {}
    /\ UNCHANGED <<tokens, current, stack, ret, statements, failure>>

declaration ==
    /\ Running("declaration", "start")
    /\ LET f == expect(current, {"FUNCTION"})
           v == expect(current, {"VAR"})
       IN  IF f.st # "ok" THEN Unwind(f.st, f.cur)
           ELSE IF f.hit THEN CallFrom("return", <<>>, "function", f.cur, <<>>)
           ELSE IF v.st # "ok" THEN Unwind(v.st, v.cur)
           ELSE IF v.hit THEN CallFrom("return", <<>>, "var", v.cur, <<>>)
           ELSE CallFrom("return", <<>>, "statement", current, <<>>)

\* declaration returns what function, var or statement returned
declaration_return ==
    /\ Returned("declaration", "return")
    /\ Return(ret.val, IsMarkStmt(ret.val), current)

statement ==
    /\ Running("statement", "start")
    /\ LET i == expect(current, {"IF"})
           p == expect(current, {"PRINT"})
           b == expect(current, {"LEFT_BRACE"})
       IN  IF i.st # "ok" THEN Unwind(i.st, i.cur)
           ELSE IF i.hit THEN CallFrom("return", <<>>, "ifstmt", i.cur, <<>>)
           ELSE IF p.st # "ok" THEN Unwind(p.st, p.cur)
           ELSE IF p.hit THEN CallFrom("return", <<>>, "print", p.cur, <<>>)
           ELSE IF b.st # "ok" THEN Unwind(b.st, b.cur)
           ELSE IF b.hit THEN CallFrom("block", <<>>, "block", b.cur, <<>>)
           ELSE CallFrom("return", <<>>, "expression_statement", current, <<>>)

\* statement returns what ifstmt, print or expression_statement returned, or
\* Statement::Block of what block returned
statement_return ==
    /\ pc = "running"
    /\ stack # <<>>
    /\ Top.fn = "statement"
    /\ Top.at \in {"return", "block"}
    /\ ret # NoRet
    /\ IF Top.at = "block"
       THEN Return(StmtBlock(ret.val), FALSE, current)
       ELSE Return(ret.val, IsMarkStmt(ret.val), current)

\* block: the loop test, then the call of declaration or the closing brace;
\* the locals of the frame are the vector statements
block ==
    /\ Running("block", "start")
    /\ ret = NoRet
    /\ LET c == check(current, "RIGHT_BRACE")
           k == consume(current, "RIGHT_BRACE", "expected } after block.")
       IN  IF c.st # "ok" THEN Unwind(c.st, current)
           ELSE IF ~c.val /\ ~is_at_end(current)
           THEN CallFrom("start", Top.locals, "declaration", current, <<>>)
           ELSE IF k.st # "ok" THEN Unwind(k.st, k.cur)
           ELSE Return(Top.locals, FALSE, k.cur)

\* block: statements.push(..) of what declaration returned
block_push ==
    /\ Returned("block", "start")
    /\ stack' = Append(Pop, Frame("block", Top.from, "start", Push(Top.locals, ret.val)))
    /\ ret' = NoRet
    /\ returned' = {}
    /\ UNCHANGED <<tokens, current, statements, pc, failure>>

print ==
    /\ Running("print", "start")
    /\ CallFrom("return", <<>>, "expression", current, <<>>)

print_return ==
    /\ Returned("print", "return")
    /\ Return(StmtPrint(ret.val), FALSE, current)

expression_statement ==
    /\ Running("expression_statement", "start")
    /\ CallFrom("return", <<>>, "expression", current, <<>>)

expression_statement_return ==
    /\ Returned("expression_statement", "return")
    /\ Return(StmtExpression(ret.val), IsMark(ret.val), current)

\* var: the name and the = sign, then the call of expression for the
\* initializer
var ==
    /\ Running("var", "start")
    /\ LET name == consume(current, "IDENTIFIER", "expect var name")
           e == expect(name.cur, {"EQUAL"})
       IN  IF name.st # "ok" THEN Unwind(name.st, name.cur)
           ELSE IF e.st # "ok" THEN Unwind(e.st, e.cur)
           ELSE IF e.hit THEN CallFrom("init", name.tok, "expression", e.cur, <<>>)
           ELSE Unwind("var error", e.cur)

\* Statement::Var(name, self.expression())
var_return ==
    /\ Returned("var", "init")
    /\ Return(StmtVar(Top.locals, ret.val), FALSE, current)

\* ifstmt: the opening parenthesis, then the call of expression
ifstmt ==
    /\ Running("ifstmt", "start")
    /\ LET l == consume(current, "LEFT_PAREN", "expect ( after if ")
       IN  IF l.st # "ok" THEN Unwind(l.st, l.cur)
           ELSE CallFrom("condition", <<>>, "expression", l.cur, <<>>)

\* ifstmt: the closing parenthesis, then the call of statement for the then
\* branch
ifstmt_condition ==
    /\ Returned("ifstmt", "condition")
    /\ LET r == consume(current, "RIGHT_PAREN", "expect ) after if condition")
       IN  IF r.st # "ok" THEN Unwind(r.st, r.cur)
           ELSE CallFrom("then", ret.val, "statement", r.cur, <<>>)

\* ifstmt_then that never looks for else
ifstmt_then_no_else ==
    /\ Returned("ifstmt", "then")
    /\ Return(StmtIf(Top.locals, ret.val, None), FALSE, current)

\* ifstmt: the then branch has returned; else is matched or not
ifstmt_then ==
    /\ Returned("ifstmt", "then")
    /\ LET e == expect(current, {"ELSE"})
       IN  IF e.st # "ok" THEN Unwind(e.st, e.cur)
           ELSE IF e.hit
           THEN CallFrom("else", <<Top.locals, ret.val>>, "statement", e.cur, <<>>)
           ELSE Return(StmtIf(Top.locals, ret.val, None), FALSE, current)

\* ifstmt: the else branch has returned
ifstmt_else ==
    /\ Returned("ifstmt", "else")
    /\ Return(StmtIf(Top.locals[1], Top.locals[2], Some(ret.val)), FALSE, current)

\* function: the name and the opening parenthesis; the locals of the frame
\* are the name and the vector parameters
function ==
    /\ Running("function", "start")
    /\ LET name == consume(current, "IDENTIFIER", "expect function")
           l == consume(name.cur, "LEFT_PAREN", "expect ( after  function name")
           c == check(l.cur, "RIGHT_PAREN")
           locals == [name |-> name.tok, parameters |-> <<>>]
       IN  IF name.st # "ok" THEN Unwind(name.st, name.cur)
           ELSE IF l.st # "ok" THEN Unwind(l.st, l.cur)
           ELSE IF c.st # "ok" THEN Unwind(c.st, l.cur)
           ELSE IF ~c.val THEN Goto("parameters", locals, l.cur)
           ELSE Goto("close", locals, l.cur)

\* function: one turn of the parameter loop
function_parameters ==
    /\ Running("function", "parameters")
    /\ LET p == consume(current, "IDENTIFIER", "expect parameter name")
           e == expect(p.cur, {"COMMA"})
           locals == [Top.locals EXCEPT !.parameters = Append(@, p.tok)]
       IN  IF p.st # "ok" THEN Unwind(p.st, p.cur)
           ELSE IF e.st # "ok" THEN Unwind(e.st, e.cur)
           ELSE IF e.hit THEN Goto("parameters", locals, e.cur)
           ELSE Goto("close", locals, p.cur)

\* function: the closing parenthesis and the opening brace, then the call of
\* block for the body
function_close ==
    /\ Running("function", "close")
    /\ LET r == consume(current, "RIGHT_PAREN", "expect ) after parameters")
           b == consume(r.cur, "LEFT_BRACE", "expect { before function body")
       IN  IF r.st # "ok" THEN Unwind(r.st, r.cur)
           ELSE IF b.st # "ok" THEN Unwind(b.st, b.cur)
           ELSE CallFrom("body", Top.locals, "block", b.cur, <<>>)

\* function: the body has returned
function_return ==
    /\ Returned("function", "body")
    /\ Return(StmtFunction(Top.locals.name, Top.locals.parameters, ret.val),
              FALSE, current)

\* ------------------------------------------------------------ expressions

expression ==
    /\ Running("expression", "start")
    /\ CallFrom("return", <<>>, "assignment", current, <<>>)

expression_return ==
    /\ Returned("expression", "return")
    /\ Return(ret.val, IsMark(ret.val), current)

\* let expr = self.equality()
assignment ==
    /\ Running("assignment", "start")
    /\ CallFrom("target", <<>>, "equality", current, <<>>)

\* assignment_target with the value parsed by equality, not by assignment
assignment_target_flat ==
    /\ Returned("assignment", "target")
    /\ LET e == expect(current, {"EQUAL"})
       IN  IF e.st # "ok" THEN Unwind(e.st, e.cur)
           ELSE IF e.hit THEN CallFrom("value", ret.val, "equality", e.cur, <<>>)
           ELSE Return(ret.val, IsMark(ret.val), current)

\* assignment: expr is there; = is matched, and assignment is called for the
\* value, or expr is returned
assignment_target ==
    /\ Returned("assignment", "target")
    /\ LET e == expect(current, {"EQUAL"})
       IN  IF e.st # "ok" THEN Unwind(e.st, e.cur)
           ELSE IF e.hit THEN CallFrom("value", ret.val, "assignment", e.cur, <<>>)
           ELSE Return(ret.val, IsMark(ret.val), current)

\* assignment_value without the panic: expr is returned when it is no Var
assignment_value_unchecked ==
    /\ Returned("assignment", "value")
    /\ IF Top.locals.expr = "Var"
       THEN Return(ExprAssignment(Top.locals.name, ret.val), FALSE, current)
       ELSE Return(Top.locals, IsMark(Top.locals), current)

\* assignment: value is there; the locals of the frame are expr
assignment_value ==
    /\ Returned("assignment", "value")
    /\ IF Top.locals.expr = "Var"
       THEN Return(ExprAssignment(Top.locals.name, ret.val), FALSE, current)
       ELSE Unwind("invalid assignment", current)

\* equality, comparison, term and factor: let mut expr = lower()
BinaryStart(fn, lower) ==
    /\ Running(fn, "start")
    /\ CallFrom("loop", <<>>, lower, current, <<>>)

\* the while loop of equality, comparison, term and factor.  The operand
\* lower() has returned: it is expr, or the right operand of the pair (expr,
\* op) in the locals of the frame.  Then the loop test, and the next operand
\* or the return of expr.
BinaryLoop(fn, lower, ops) ==
    /\ Returned(fn, "loop")
    /\ LET expr == IF Top.locals = <<>> THEN ret.val
                   ELSE ExprBinary(Top.locals[1], Top.locals[2], ret.val)
           e == expect(current, ops)
           op == previous(e.cur)
       IN  IF e.st # "ok" THEN Unwind(e.st, e.cur)
           ELSE IF ~e.hit THEN Return(expr, IsMark(expr), current)
           ELSE IF op = NoToken THEN Unwind(UnwrapNone, e.cur)
           ELSE CallFrom("loop", <<expr, op>>, lower, e.cur, <<>>)

equality == BinaryStart("equality", "comparison")

equality_loop == BinaryLoop("equality", "comparison", {"BANG_EQUAL", "EQUAL_EQUAL"})

comparison == BinaryStart("comparison", "term")

comparison_loop ==
    BinaryLoop("comparison", "term", {"GREATER", "GREATER_EQUAL", "LESS", "LESS_EQUAL"})

term == BinaryStart("term", "factor")

term_loop == BinaryLoop("term", "factor", {"MINUS", "PLUS"})

factor == BinaryStart("factor", "unary")

\* factor with the operators of term in its loop test
factor_loop_additive == BinaryLoop("factor", "unary", {"MINUS", "PLUS"})

factor_loop == BinaryLoop("factor", "unary", {"SLASH", "STAR"})

unary ==
    /\ Running("unary", "start")
    /\ LET e == expect(current, {"BANG", "MINUS"})
           op == previous(e.cur)
       IN  IF e.st # "ok" THEN Unwind(e.st, e.cur)
           ELSE IF ~e.hit THEN CallFrom("return", <<>>, "call", current, <<>>)
           ELSE IF op = NoToken THEN Unwind(UnwrapNone, e.cur)
           ELSE CallFrom("operand", op, "unary", e.cur, <<>>)

\* unary returns Unary(op, right), or what call returned
unary_return ==
    /\ pc = "running"
    /\ stack # <<>>
    /\ Top.fn = "unary"
    /\ Top.at \in {"operand", "return"}
    /\ ret # NoRet
    /\ IF Top.at = "operand"
       THEN Return(ExprUnary(Top.locals, ret.val), FALSE, current)
       ELSE Return(ret.val, IsMark(ret.val), current)

\* let mut expr = self.primary()
call ==
    /\ Running("call", "start")
    /\ CallFrom("loop", <<>>, "primary", current, <<>>)

\* the loop of call: expr is what primary or finish_call returned
call_loop ==
    /\ Returned("call", "loop")
    /\ LET e == expect(current, {"LEFT_PAREN"})
       IN  IF e.st # "ok" THEN Unwind(e.st, e.cur)
           ELSE IF e.hit
           THEN CallFrom("loop", <<>>, "finish_call", e.cur,
                         [callee |-> ret.val, arguments |-> <<>>])
           ELSE Return(ret.val, IsMark(ret.val), current)

\* finish_call: the closing parenthesis with the cursor at cur, and the Call
\* node of callee and arguments
FinishCall(cur, arguments) ==
    LET paren == consume(cur, "RIGHT_PAREN", "expect ) after arguments")
    IN  IF paren.st # "ok" THEN Unwind(paren.st, paren.cur)
        ELSE Return(ExprCall(Top.locals.callee, paren.tok, arguments), FALSE, paren.cur)

\* finish_call: no argument, or the call of expression for the first one
finish_call ==
    /\ Running("finish_call", "start")
    /\ LET c == check(current, "RIGHT_PAREN")
       IN  IF c.st # "ok" THEN Unwind(c.st, current)
           ELSE IF ~c.val THEN CallFrom("arguments", Top.locals, "expression", current, <<>>)
           ELSE FinishCall(current, Top.locals.arguments)

\* finish_call: an argument has returned and arguments is the vector with it;
\* a comma and the next argument, or the end of the list
FinishCallArguments(arguments) ==
    /\ Returned("finish_call", "arguments")
    /\ LET e == expect(current, {"COMMA"})
       IN  IF e.st # "ok" THEN Unwind(e.st, e.cur)
           ELSE IF e.hit
           THEN CallFrom("arguments", [Top.locals EXCEPT !.arguments = arguments],
                         "expression", e.cur, <<>>)
           ELSE FinishCall(current, arguments)

\* finish_call_arguments with the argument put in front of the vector
finish_call_arguments_prepend == FinishCallArguments(<<ret.val>> \o Top.locals.arguments)

\* arguments.push(self.expression())
finish_call_arguments == FinishCallArguments(Append(Top.locals.arguments, ret.val))

\* primary: a literal, an identifier, the opening parenthesis of a grouping
\* and the call of expression, or Mark with the cursor where it was
primary ==
    /\ Running("primary", "start")
    /\ LET f == expect(current, {"FALSE"})
           t == expect(current, {"TRUE"})
           n == expect(current, {"NUMBER", "STRING"})
           l == expect(current, {"LEFT_PAREN"})
           i == expect(current, {"IDENTIFIER"})
       IN  IF f.st # "ok" THEN Unwind(f.st, f.cur)
           ELSE IF f.hit THEN Return(ExprLiteral(Object("Bool", "false")), FALSE, f.cur)
           ELSE IF t.hit THEN Return(ExprLiteral(Object("Bool", "true")), FALSE, t.cur)
           ELSE IF n.hit
           THEN IF previous(n.cur) = NoToken THEN Unwind(UnwrapNone, n.cur)
                ELSE Return(ExprLiteral(previous(n.cur).literal), FALSE, n.cur)
           ELSE IF l.hit THEN CallFrom("grouping", <<>>, "expression", l.cur, <<>>)
           ELSE IF i.hit
           THEN IF previous(i.cur) = NoToken THEN Unwind(UnwrapNone, i.cur)
                ELSE Return(ExprVar(previous(i.cur)), FALSE, i.cur)
           ELSE Return(ExprMark, TRUE, current)

\* primary: the expression in parentheses has returned
primary_grouping ==
    /\ Returned("primary", "grouping")
    /\ LET r == consume(current, "RIGHT_PAREN", "expect ) after expression")
       IN  IF r.st # "ok" THEN Unwind(r.st, r.cur)
           ELSE Return(ExprGrouping(ret.val), FALSE, r.cur)

\* ------------------------------------------------------------ inputs

\* A token vector is written as a sequence of <<kind, lexeme>>; Lex numbers the
\* lines so that two tokens of one kind stay apart.
Lex(src) == [i \in 1..Len(src) |-> Token(src[i][1], src[i][2], i)]

LexemeOf(tag) ==
    CASE tag = "LEFT_PAREN" -> "("
      [] tag = "RIGHT_PAREN" -> ")"
      [] tag = "LEFT_BRACE" -> "{"
      [] tag = "RIGHT_BRACE" -> "}"
      [] tag = "COMMA" -> ","
      [] tag = "MINUS" -> "-"
      [] tag = "PLUS" -> "+"
      [] tag = "SLASH" -> "/"
      [] tag = "STAR" -> "*"
      [] tag = "BANG" -> "!"
      [] tag = "BANG_EQUAL" -> "!="
      [] tag = "EQUAL" -> "="
      [] tag = "EQUAL_EQUAL" -> "=="
      [] tag = "GREATER" -> ">"
      [] tag = "GREATER_EQUAL" -> ">="
      [] tag = "LESS" -> "<"
      [] tag = "LESS_EQUAL" -> "<="
      [] tag = "NUMBER" -> "1"
      [] tag = "STRING" -> "s"
      [] tag = "TRUE" -> "true"
      [] tag = "FALSE" -> "false"
      [] tag = "NIL" -> "nil"
      [] tag = "IDENTIFIER" -> "a"
      [] tag = "IF" -> "if"
      [] tag = "ELSE" -> "else"
      [] tag = "PRINT" -> "print"
      [] tag = "VAR" -> "var"
      [] tag = "FUNCTION" -> "function"

K(tag) == <<tag, LexemeOf(tag)>>

Id(name) == <<"IDENTIFIER", name>>

Num(n) == <<"NUMBER", n>>

\* the closed kind set of the lexer
Kinds ==
    {"LEFT_PAREN", "RIGHT_PAREN", "LEFT_BRACE", "RIGHT_BRACE", "COMMA",
     "MINUS", "PLUS", "SLASH", "STAR", "BANG", "BANG_EQUAL", "EQUAL", "EQUAL_EQUAL",
     "GREATER", "GREATER_EQUAL", "LESS", "LESS_EQUAL",
     "NUMBER", "STRING", "TRUE", "FALSE", "NIL", "IDENTIFIER",
     "IF", "ELSE", "PRINT", "VAR", "FUNCTION"}

\* what comes before the last token of the inputs of KindInputs: nothing, an
\* open block, grouping, argument list or parameter list, and the places
\* where an expression or a statement is due
Contexts ==
    {<<>>,
     <<K("LEFT_BRACE")>>,
     <<K("LEFT_PAREN")>>,
     <<K("PRINT")>>,
     <<Id("f"), K("LEFT_PAREN")>>,
     <<Id("a"), K("PLUS")>>,
     <<Num("1"), K("EQUAL")>>,
     <<K("VAR"), Id("x"), K("EQUAL")>>,
     <<K("IF"), K("LEFT_PAREN"), Id("a"), K("RIGHT_PAREN")>>,
     <<K("FUNCTION"), Id("f"), K("LEFT_PAREN")>>}

\* a token of every kind after every context
KindInputs == {c \o <<K(k)>> : c \in Contexts, k \in Kinds}

\* the kinds that open and close delimiters, start and continue expressions
\* and declarations, and NIL, which no routine matches
CoreKinds ==
    {"LEFT_PAREN", "RIGHT_PAREN", "LEFT_BRACE", "RIGHT_BRACE", "EQUAL", "MINUS",
     "IDENTIFIER", "VAR", "NIL"}

\* every token vector of at most MaxLen tokens of those kinds
CoreInputs == UNION {[1..n -> {K(k) : k \in CoreKinds}] : n \in 0..MaxLen}

BinaryOps ==
    {"BANG_EQUAL", "EQUAL_EQUAL", "GREATER", "GREATER_EQUAL", "LESS", "LESS_EQUAL",
     "MINUS", "PLUS", "SLASH", "STAR"}

\* a OP1 b OP2 c
PrecInputs ==
    {<<a, K(o1), Num("2"), K(o2), c>> :
        a \in {Num("1"), Id("x")}, o1 \in BinaryOps, o2 \in BinaryOps,
        c \in {Id("y"), K("TRUE")}}

Names == <<"a", "b", "c", "d", "e", "f">>

\* x1 = x2 = ... = xn =
ChainTargets(n) == [i \in 1..(2 * n) |-> IF i % 2 = 1 THEN Id(Names[(i + 1) \div 2])
                                         ELSE K("EQUAL")]

\* the values e of the chain family: a primary, or a binary expression of primaries
ChainValues ==
    {<<Id("c")>>, <<Num("1")>>, <<Id("x"), K("PLUS"), Num("1")>>,
     <<Id("a"), K("EQUAL_EQUAL"), Id("b")>>}

ChainInputs == {ChainTargets(n) \o v : n \in 1..MaxChain, v \in ChainValues}

\* E = v with E not a bare identifier
NonVarTargets ==
    {<<Num("1")>>, <<>>, <<K("TRUE")>>,
     <<K("LEFT_PAREN"), Id("a"), K("RIGHT_PAREN")>>,
     <<K("MINUS"), Id("a")>>, <<K("BANG"), Id("a")>>,
     <<Id("a"), K("PLUS"), Id("b")>>, <<Id("a"), K("EQUAL_EQUAL"), Id("b")>>,
     <<Id("f"), K("LEFT_PAREN"), K("RIGHT_PAREN")>>}

NonVarInputs ==
    {e \o <<K("EQUAL")>> \o v : e \in NonVarTargets, v \in {<<Num("2")>>, <<Id("b")>>, <<>>}}

\* the argument lists of the call family
ArgLists == {<<>>, <<Id("a")>>, <<Id("a"), Num("1")>>}

\* ( a1 , a2 , ... )
ArgSrc(args) ==
    <<K("LEFT_PAREN")>>
    \o [i \in 1..(2 * Len(args) - 1) |-> IF i % 2 = 1 THEN args[(i + 1) \div 2]
                                         ELSE K("COMMA")]
    \o <<K("RIGHT_PAREN")>>

RECURSIVE CallSrc(_, _)

\* the callee followed by the argument lists ls[1], ls[2], ...
CallSrc(callee, ls) ==
    IF ls = <<>> THEN <<callee>>
    ELSE CallSrc(callee, SubSeq(ls, 1, Len(ls) - 1)) \o ArgSrc(ls[Len(ls)])

CallInputs ==
    {CallSrc(Id("f"), ls) : ls \in UNION {[1..k -> ArgLists] : k \in 1..MaxCalls}}

\* if ( A ) if ( B ) S else T
SimpleStatements ==
    {<<K("PRINT"), Id("s")>>, <<Id("s")>>, <<K("LEFT_BRACE"), K("RIGHT_BRACE")>>}

IfInputs ==
    {<<K("IF"), K("LEFT_PAREN"), Id("a"), K("RIGHT_PAREN"),
       K("IF"), K("LEFT_PAREN"), Id("b"), K("RIGHT_PAREN")>> \o s \o <<K("ELSE")>> \o t :
        s \in SimpleStatements, t \in SimpleStatements}

\* the scenarios and the negative cases of the specification, and the inputs
\* of the two tests
Scenarios ==
    {<<Num("1"), K("PLUS"), Num("6"), K("SLASH"), K("LEFT_PAREN"), Num("3"), K("PLUS"),
       Num("3"), K("RIGHT_PAREN"), K("STAR"), Num("2")>>,
     <<K("PRINT"), Num("1")>>,
     <<K("VAR"), Id("x"), K("EQUAL"), Num("42"), Id("x"), K("EQUAL"), Id("x"), K("PLUS"),
       Num("1")>>,
     <<K("IF"), K("LEFT_PAREN"), Id("a"), K("EQUAL_EQUAL"), Num("1"), K("RIGHT_PAREN"),
       K("PRINT"), Id("a"), K("ELSE"), K("PRINT"), Num("0")>>,
     <<K("FUNCTION"), Id("add"), K("LEFT_PAREN"), Id("a"), K("COMMA"), Id("b"),
       K("RIGHT_PAREN"), K("LEFT_BRACE"), K("PRINT"), Id("a"), K("PLUS"), Id("b"),
       K("RIGHT_BRACE")>>,
     <<Id("f"), K("LEFT_PAREN"), K("RIGHT_PAREN"), K("LEFT_PAREN"), K("RIGHT_PAREN")>>,
     <<K("FUNCTION"), Id("a"), K("LEFT_PAREN"), K("RIGHT_PAREN"), K("LEFT_BRACE"),
       K("PRINT"), Num("1"), K("RIGHT_BRACE")>>,
     <<K("VAR"), Id("x")>>,
     <<K("LEFT_PAREN"), Num("1"), K("PLUS"), Num("2")>>,
     <<K("LEFT_BRACE"), K("PRINT"), Num("1")>>,
     <<Num("1"), K("EQUAL"), Num("2")>>}

Inputs ==
    KindInputs \cup CoreInputs \cup Scenarios \cup PrecInputs \cup ChainInputs
    \cup NonVarInputs \cup CallInputs \cup IfInputs

\* ------------------------------------------------------------ specification

Init ==
    /\ tokens \in {Lex(src) : src \in Inputs}
    /\ current = 0
    /\ stack = <<>>
    /\ ret = NoRet
    /\ statements = <<>>
    /\ pc = "running"
    /\ failure = ""
    /\ returned = {}

Next ==
    \/ parse
    \/ parse_push
    \/ parse_return
    \/ declaration
    \/ declaration_return
    \/ statement
    \/ statement_return
    \/ block
    \/ block_push
    \/ print
    \/ print_return
    \/ expression_statement
    \/ expression_statement_return
    \/ var
    \/ var_return
    \/ ifstmt
    \/ ifstmt_condition
    \/ ifstmt_then
    \/ ifstmt_else
    \/ function
    \/ function_parameters
    \/ function_close
    \/ function_return
    \/ expression
    \/ expression_return
    \/ assignment
    \/ assignment_target
    \/ assignment_value
    \/ equality
    \/ equality_loop
    \/ comparison
    \/ comparison_loop
    \/ term
    \/ term_loop
    \/ factor
    \/ factor_loop
    \/ unary
    \/ unary_return
    \/ call
    \/ call_loop
    \/ finish_call
    \/ finish_call_arguments
    \/ primary
    \/ primary_grouping

Spec == Init /\ [][Next]_vars

\* the inputs of the runs to completion: the scenarios, a call with
\* arguments, and a token of every kind at the top level and in an open block
FairInputs ==
    Scenarios
    \cup {<<K("PRINT"), Id("f"), K("LEFT_PAREN"), Id("a"), K("COMMA"), Num("1"),
            K("RIGHT_PAREN")>>}
    \cup {c \o <<K(k)>> : c \in {<<>>, <<K("LEFT_BRACE")>>}, k \in Kinds}

FairInit ==
    /\ tokens \in {Lex(src) : src \in FairInputs}
    /\ current = 0
    /\ stack = <<>>
    /\ ret = NoRet
    /\ statements = <<>>
    /\ pc = "running"
    /\ failure = ""
    /\ returned = {}

\* The parser is one sequential program: whenever it has a next step, it takes it.
FairSpec == FairInit /\ [][Next]_vars /\ WF_vars(Next)

\* ------------------------------------------------------------ expected trees

IsPrimaryToken(t) == t.tag \in {"NUMBER", "STRING", "TRUE", "FALSE", "IDENTIFIER"}

\* the expression a one-token primary stands for
PrimaryOf(t) ==
    CASE t.tag = "TRUE" -> ExprLiteral(Object("Bool", "true"))
      [] t.tag = "FALSE" -> ExprLiteral(Object("Bool", "false"))
      [] t.tag = "IDENTIFIER" -> ExprVar(t)
      [] OTHER -> ExprLiteral(t.literal)

\* precedence levels, low to high: equality, comparison, term, factor
Level(tag) ==
    CASE tag \in {"BANG_EQUAL", "EQUAL_EQUAL"} -> 1
      [] tag \in {"GREATER", "GREATER_EQUAL", "LESS", "LESS_EQUAL"} -> 2
      [] tag \in {"MINUS", "PLUS"} -> 3
      [] tag \in {"SLASH", "STAR"} -> 4

\* parse is still running or has returned exactly one Expression statement, tree
OneExpression(tree) ==
    /\ pc # "panicked"
    /\ Len(statements) <= 1
    /\ pc = "returned" => statements = <<StmtExpression(tree)>>

\* ------------------------------------------------------------ C1

Terminated == pc \in {"returned", "panicked"}

\* C1: one call of parse on a finite token vector eventually returns its
\* statement list or fails fatally; neither the loop of parse nor the loop of
\* block goes on for ever.
C1_ParseTerminates == <>Terminated

\* ------------------------------------------------------------ C2

IsPrecInput ==
    /\ Len(tokens) = 5
    /\ IsPrimaryToken(tokens[1])
    /\ tokens[2].tag \in BinaryOps
    /\ IsPrimaryToken(tokens[3])
    /\ tokens[4].tag \in BinaryOps
    /\ IsPrimaryToken(tokens[5])

RightNested ==
    ExprBinary(PrimaryOf(tokens[1]), tokens[2],
               ExprBinary(PrimaryOf(tokens[3]), tokens[4], PrimaryOf(tokens[5])))

LeftNested ==
    ExprBinary(ExprBinary(PrimaryOf(tokens[1]), tokens[2], PrimaryOf(tokens[3])),
               tokens[4], PrimaryOf(tokens[5]))

\* 1 + 6 / (3 + 3) * 2
Arithmetic ==
    <<Num("1"), K("PLUS"), Num("6"), K("SLASH"), K("LEFT_PAREN"), Num("3"), K("PLUS"),
      Num("3"), K("RIGHT_PAREN"), K("STAR"), Num("2")>>

ArithmeticTree ==
    ExprBinary(PrimaryOf(tokens[1]), tokens[2],
        ExprBinary(
            ExprBinary(PrimaryOf(tokens[3]), tokens[4],
                ExprGrouping(ExprBinary(PrimaryOf(tokens[6]), tokens[7],
                                        PrimaryOf(tokens[8])))),
            tokens[10], PrimaryOf(tokens[11])))

\* C2: a OP1 b OP2 c parses to one Expression statement, Binary(a, OP1,
\* Binary(b, OP2, c)) when OP1 is of a strictly lower level than OP2 and
\* Binary(Binary(a, OP1, b), OP2, c) when both are of one level; and
\* 1 + 6 / (3 + 3) * 2 has root + with left 1 and right (6 / (3 + 3)) * 2.
C2_Precedence ==
    /\ (IsPrecInput /\ Level(tokens[2].tag) < Level(tokens[4].tag))
           => OneExpression(RightNested)
    /\ (IsPrecInput /\ Level(tokens[2].tag) = Level(tokens[4].tag))
           => OneExpression(LeftNested)
    /\ tokens = Lex(Arithmetic) => OneExpression(ArithmeticTree)

C2_Witness ==
    /\ pc = "returned"
    /\ IsPrecInput
    /\ Level(tokens[2].tag) < Level(tokens[4].tag)
    /\ statements = <<StmtExpression(RightNested)>>

\* ------------------------------------------------------------ C3

\* the tree of the value e, whose tokens follow token off
ChainValueTree(v, off) ==
    IF Len(v) = 1 THEN PrimaryOf(tokens[off + 1])
    ELSE ExprBinary(PrimaryOf(tokens[off + 1]), tokens[off + 2], PrimaryOf(tokens[off + 3]))

RECURSIVE ChainTree(_, _, _)

\* Assignment(xi, Assignment(.. Assignment(xn, e)))
ChainTree(i, n, e) ==
    IF i > n THEN e ELSE ExprAssignment(tokens[2 * i - 1], ChainTree(i + 1, n, e))

\* C3: x1 = x2 = ... = xn = e, with e an equality-level expression, parses to
\* Assignment(x1, Assignment(x2, ... Assignment(xn, e))).
C3_AssignmentRightAssociative ==
    (Len(tokens) >= 3 /\ tokens[2].tag = "EQUAL") =>
        \A n \in 1..MaxChain, v \in ChainValues :
            tokens = Lex(ChainTargets(n) \o v)
                => OneExpression(ChainTree(1, n, ChainValueTree(v, 2 * n)))

\* a = b = c has returned Assignment(a, Assignment(b, Var(c)))
C3_Witness ==
    /\ pc = "returned"
    /\ tokens = Lex(ChainTargets(2) \o <<Id("c")>>)
    /\ statements = <<StmtExpression(ExprAssignment(tokens[1],
                          ExprAssignment(tokens[3], ExprVar(tokens[5]))))>>

\* ------------------------------------------------------------ C4

\* the step of assignment after its value has returned, when the expression
\* before = is not a bare identifier: it panics and nothing is returned
InvalidTargetPanics ==
    (Returned("assignment", "value") /\ Top.locals.expr # "Var") =>
        /\ pc' = "panicked"
        /\ failure' = "invalid assignment"
        /\ ret' = NoRet
        /\ statements' = <<>>

\* a step in which assignment returns an Assignment node: its target is the
\* token of the Var expression before =
AssignmentTargetIsVar ==
    (\E r \in returned' : r.fn = "assignment" /\ ret'.val.expr = "Assignment") =>
        /\ Returned("assignment", "value")
        /\ Top.locals.expr = "Var"
        /\ ret'.val.name = Top.locals.name
        /\ ret'.val.name.tag = "IDENTIFIER"

\* C4: when = follows an equality-level expression that is not a bare
\* identifier, assignment panics with invalid assignment once the value is
\* parsed; every Assignment node has the token of a Var expression as target;
\* and no input E = v with E a literal, a grouping, a unary, binary or call
\* expression or Mark makes parse return.
C4_InvalidAssignmentTarget ==
    /\ [][InvalidTargetPanics /\ AssignmentTargetIsVar]_vars
    /\ [](pc = "returned" => tokens \notin {Lex(src) : src \in NonVarInputs})

\* 1 = 2 has failed with invalid assignment
C4_Witness ==
    /\ tokens = Lex(<<Num("1"), K("EQUAL"), Num("2")>>)
    /\ pc = "panicked"
    /\ failure = "invalid assignment"
    /\ statements = <<>>

\* ------------------------------------------------------------ C5

IfSrc(s, t) ==
    <<K("IF"), K("LEFT_PAREN"), Id("a"), K("RIGHT_PAREN"),
      K("IF"), K("LEFT_PAREN"), Id("b"), K("RIGHT_PAREN")>> \o s \o <<K("ELSE")>> \o t

\* the statement of SimpleStatements whose tokens follow token off
SimpleTree(s, off) ==
    IF s[1][1] = "PRINT" THEN StmtPrint(ExprVar(tokens[off + 2]))
    ELSE IF s[1][1] = "LEFT_BRACE" THEN StmtBlock(<<>>)
    ELSE StmtExpression(ExprVar(tokens[off + 1]))

NestedIfTree(s, t) ==
    StmtIf(ExprVar(tokens[3]),
           StmtIf(ExprVar(tokens[7]), SimpleTree(s, 8),
                  Some(SimpleTree(t, 8 + Len(s) + 1))),
           None)

\* if (A) if (B) S else T parses to If(A, If(B, S, Some(T)), None)
NestedIfBindsInner ==
    (Len(tokens) >= 11 /\ tokens[1].tag = "IF" /\ tokens[5].tag = "IF") =>
        \A s \in SimpleStatements, t \in SimpleStatements :
            tokens = Lex(IfSrc(s, t)) =>
                /\ pc # "panicked"
                /\ Len(statements) <= 1
                /\ pc = "returned" => statements = <<NestedIfTree(s, t)>>

\* the step of ifstmt after its then statement has returned: it returns an If
\* without else exactly when the token at the cursor is not ELSE; and the step
\* after its else statement has returned: it returns an If with that else
ElseFollowsThen ==
    /\ (Running("ifstmt", "then") /\ ret # NoRet) =>
           /\ (ret' # NoRet) <=> ~check(current, "ELSE").val
           /\ ret' # NoRet => ret'.val = StmtIf(Top.locals, ret.val, None)
    /\ (Running("ifstmt", "else") /\ ret # NoRet) =>
           /\ ret' # NoRet
           /\ ret'.val = StmtIf(Top.locals[1], Top.locals[2], Some(ret.val))

\* C5: else binds to the nearest if: if (A) if (B) S else T parses to
\* If(A, If(B, S, Some(T)), None); and an If node has no else branch exactly
\* when the token that follows its then statement is not ELSE.
C5_DanglingElse == [](NestedIfBindsInner) /\ [][ElseFollowsThen]_vars

C5_Witness ==
    /\ pc = "returned"
    /\ tokens = Lex(IfSrc(<<K("PRINT"), Id("s")>>, <<K("PRINT"), Id("s")>>))
    /\ statements[1].else_block = None
    /\ statements[1].then_block.else_block = Some(StmtPrint(ExprVar(tokens[13])))

\* ------------------------------------------------------------ C6

CallLists == UNION {[1..k -> ArgLists] : k \in 1..MaxCalls}

RECURSIVE CallTree(_)

\* the k nested Call nodes of f followed by the argument lists ls: the last
\* list is the outermost Call, closed by the token at close
CallTree(ls) ==
    IF ls = <<>> THEN ExprVar(tokens[1])
    ELSE LET inner == SubSeq(ls, 1, Len(ls) - 1)
             open == Len(CallSrc(Id("f"), inner)) + 1
             args == ls[Len(ls)]
             close == open + Len(ArgSrc(args)) - 1
         IN  ExprCall(CallTree(inner), tokens[close],
                      [j \in 1..Len(args) |-> PrimaryOf(tokens[open + 2 * j - 1])])

\* C6: a primary followed by k >= 1 argument lists parses to k nested Call
\* nodes, the first list innermost, each with its arguments in source order and
\* the RIGHT_PAREN token that closed it.
C6_CallChaining ==
    (Len(tokens) >= 3 /\ tokens[2].tag = "LEFT_PAREN") =>
        \A ls \in CallLists :
            tokens = Lex(CallSrc(Id("f"), ls)) => OneExpression(CallTree(ls))

\* f(a)(a, 1) has returned Call(Call(Var f, [Var a]), [Var a, 1])
C6_Witness ==
    /\ pc = "returned"
    /\ tokens = Lex(CallSrc(Id("f"), << <<Id("a")>>, <<Id("a"), Num("1")>> >>))
    /\ statements =
           <<StmtExpression(ExprCall(
                 ExprCall(ExprVar(tokens[1]), tokens[4], <<ExprVar(tokens[3])>>),
                 tokens[9], <<ExprVar(tokens[6]), ExprLiteral(tokens[8].literal)>>))>>

\* ------------------------------------------------------------ C7

RECURSIVE VarWithoutInitializer(_)

\* a Statement::Var whose initializer is the Mark sentinel, in s or below it
VarWithoutInitializer(s) ==
    CASE s.stmt = "Var" -> IsMark(s.init)
      [] s.stmt = "Block" ->
            \E i \in 1..Len(s.statements) : VarWithoutInitializer(s.statements[i])
      [] s.stmt = "If" ->
            \/ VarWithoutInitializer(s.then_block)
            \/ s.else_block # None /\ VarWithoutInitializer(s.else_block.val)
      [] s.stmt = "Function" ->
            \E i \in 1..Len(s.body) : VarWithoutInitializer(s.body[i])
      [] OTHER -> FALSE

\* C7: a var declaration requires an initializer: parse does not return when
\* VAR IDENTIFIER is not followed by EQUAL and an initializer expression, and
\* every Statement::Var of a returned tree has its initializer.
C7_VarRequiresInitializer ==
    pc = "returned" =>
        /\ \A i \in 1..Len(statements) : ~VarWithoutInitializer(statements[i])
        /\ \A i \in 1..Len(tokens) :
               (tokens[i].tag = "VAR" /\ i < Len(tokens) /\ tokens[i + 1].tag = "IDENTIFIER")
                   => (i + 3 <= Len(tokens) /\ tokens[i + 2].tag = "EQUAL")

\* ------------------------------------------------------------ C8

OpenBlock == \E i \in 1..Len(stack) : stack[i].fn = "block"

\* C8: a block that is opened and never closed makes parse fail fatally: once
\* a block is open, it is closed or parse panics.
C8_UnclosedDelimiterFails == OpenBlock ~> (pc = "panicked" \/ ~OpenBlock)

\* ------------------------------------------------------------ C9

GrammarRoutines ==
    {"declaration", "statement", "block", "ifstmt", "var", "function", "expression",
     "assignment", "equality", "comparison", "term", "factor", "unary", "call",
     "primary"}

FatalMessages ==
    {"expect ) after expression", "expect ) after arguments", "expected } after block.",
     "expect ( after if ", "expect ) after if condition", "expect var name",
     "expect function", "expect ( after  function name", "expect parameter name",
     "expect ) after parameters", "expect { before function body",
     "invalid assignment", "var error"}

\* C10: the cursor stays within 0..tokens.len(), no peek or previous ever
\* reads outside the vector (which would panic in unwrap), and every panic is
\* one of consume, the invalid-assignment check or the missing-initializer check.
C10_GuardedCursor ==
    /\ current \in 0..Len(tokens)
    /\ failure # UnwrapNone
    /\ pc = "panicked" => failure \in FatalMessages
    /\ \A r \in returned : 0 <= r.from /\ r.from <= r.to /\ r.to <= Len(tokens)
    /\ \A i \in 1..Len(stack) : stack[i].from \in 0..current

\* a check at the end of the vector has answered false and consume has failed
C10_Witness ==
    /\ pc = "panicked"
    /\ Len(tokens) > 0
    /\ current = Len(tokens)
    /\ failure = "expect ) after expression"

====
